---- MODULE Spec2Model ----
(***************************************************************************)
(* Pleader AI backend (src/backend/server.py): the authenticated           *)
(* conversation and document orchestration layer, as a state machine.     *)
(*                                                                         *)
(* Every request runs in its own task (a slot of Procs).  A task is       *)
(* suspended at each awaited database call, so the steps of different     *)
(* requests interleave between the database operations; one action is one *)
(* database operation together with the synchronous code around it.       *)
(* rq[p] is the task's position and local variables while it is           *)
(* suspended, resp the response sent last.                                *)
(***************************************************************************)
EXTENDS Integers, Sequences, FiniteSets, TLC

\* ------------------------------------------------------------ bounds ----
NumProcs == 2
MaxClock == 1
MaxChats == 1
MaxMsgs == 4
MaxDocs == 1
MaxUsers == 2

Procs == 1..NumProcs

\* ------------------------------------------------- program constants ----
\* JWT_EXPIRATION = timedelta(days=7); the clock counts days
JWT_EXPIRATION == 7
\* chat.messages[-5:]
ContextWindow == 5
\* user_message[:50]
TitleMax == 50
\* len(extracted_text.strip()) < 10
MinTextLen == 10
\* extracted_text[:10000] is stored, extracted_text[:5000] is analysed
StoredTextMax == 10000
PromptTextMax == 5000
\* to_list(100)
ListLimit == 100
\* sanitize_string(v, 5000), (v, 2000), (v, 100)
MessageMax == 5000
QueryMax == 2000
NameMax == 100
\* len(v) < 2 of the name, len(v) < 8 of the password, len(v) < 1 of the
\* message and of the query
MinNameLen == 2
MinPasswordLen == 8
MinMessageLen == 1
\* top_k: int = Field(default=5, ge=1, le=20)
TopKMin == 1
TopKMax == 20
\* @limiter.limit("<n>/minute") of each limited route
HealthLimit == 60
SignupLimit == 5
LoginLimit == 10
SessionLimit == 10
SendLimit == 30
AnalyzeLimit == 20
RagQueryLimit == 30

NoId == 0
NoHash == <<>>
NoCred == [kind |-> "none"]
NoBody == [kind |-> "none"]
NoChat == [kind |-> "none"]
NoMsg == <<>>

VARIABLES now, users, chats, documents, rag, nextChat, nextDoc, hits, rq, resp

vars == <<now, users, chats, documents, rag, nextChat, nextDoc, hits, rq, resp>>

\* ------------------------------------------------------ pure helpers ----
Min(a, b) == IF a < b THEN a ELSE b

\* s[-n:] of Python
LastN(s, n) == SubSeq(s, Len(s) - Min(Len(s), n) + 1, Len(s))

IsPrefix(s, t) == Len(s) <= Len(t) /\ SubSeq(t, 1, Len(s)) = s

\* s[:n] of Python
Take(s, n) == SubSeq(s, 1, Min(Len(s), n))

Whitespace == {" ", "\t", "\n", "\r"}

RECURSIVE LStrip(_)
LStrip(s) == IF s # <<>> /\ Head(s) \in Whitespace THEN LStrip(Tail(s)) ELSE s

RECURSIVE RStrip(_)
RStrip(s) ==
  IF s # <<>> /\ s[Len(s)] \in Whitespace
  THEN RStrip(SubSeq(s, 1, Len(s) - 1)) ELSE s

\* str.strip()
Strip(s) == RStrip(LStrip(s))

\* sanitize_string: null bytes removed, cut to max_length, "<" and ">"
\* removed, stripped
Sanitize(text, max_length) ==
  LET noNul == SelectSeq(text, LAMBDA c : c # "NUL")
      cut == Take(noNul, max_length)
      safe == SelectSeq(cut, LAMBDA c : c \notin {"<", ">"})
  IN Strip(safe)

Letters ==
  {"a", "b", "c", "d", "e", "f", "g", "h", "i", "j", "k", "l", "m", "n", "o",
   "p", "q", "r", "s", "t", "u", "v", "w", "x", "y", "z",
   "A", "B", "C", "D", "E", "F", "G", "H", "I", "J", "K", "L", "M", "N", "O",
   "P", "Q", "R", "S", "T", "U", "V", "W", "X", "Y", "Z"}
Digits == {"0", "1", "2", "3", "4", "5", "6", "7", "8", "9"}
LocalChars == Letters \cup Digits \cup {".", "_", "%", "+", "-"}
DomainChars == Letters \cup Digits \cup {".", "-"}

\* validate_email: re.match of ^[a-zA-Z0-9._%+-]+@[a-zA-Z0-9.-]+\.[a-zA-Z]{2,}$
\* ("$" also matches before one trailing newline)
ValidateEmail(email) ==
  LET n == IF email # <<>> /\ email[Len(email)] = "\n"
           THEN Len(email) - 1 ELSE Len(email)
  IN \E i \in 2..n, j \in 1..n :
       /\ email[i] = "@"
       /\ \A k \in 1..(i - 1) : email[k] \in LocalChars
       /\ j > i + 1
       /\ \A k \in (i + 1)..(j - 1) : email[k] \in DomainChars
       /\ email[j] = "."
       /\ n - j >= 2
       /\ \A k \in (j + 1)..n : email[k] \in Letters

\* email.split('@')[0]
RECURSIVE BeforeAt(_)
BeforeAt(email) ==
  IF email = <<>> \/ Head(email) = "@" THEN <<>>
  ELSE <<Head(email)>> \o BeforeAt(Tail(email))

\* bcrypt.hashpw / bcrypt.checkpw: the hash of a password is matched by
\* that password only
HashPw(pw) == <<"bcrypt", pw>>
CheckPw(pw, h) == h = HashPw(pw)

\* user_message[:50] + ("..." if len(user_message) > 50 else "")
Title(m) ==
  IF Len(m) > TitleMax THEN SubSeq(m, 1, TitleMax) \o <<".", ".", ".">> ELSE m

\* Message(sender=..., content=...), timestamp from the default factory
Message(sender, content) ==
  [sender |-> sender, content |-> content, timestamp |-> now]

\* Chat(user_id=..., title=...), the other fields from their defaults
Chat(uid, title) ==
  [user_id |-> uid, title |-> title, messages |-> <<>>,
   created_at |-> now, updated_at |-> now]

\* jwt.encode({"user_id": uid, "exp": now + JWT_EXPIRATION}, JWT_SECRET)
IssueToken(uid) ==
  [kind |-> "bearer", user_id |-> uid, exp |-> now + JWT_EXPIRATION, sig |-> "ok"]

\* db.users.find_one({"id": user_id})
FindUserById(uid) == IF uid \in 1..Len(users) THEN uid ELSE NoId

\* a find_one that never matches
FindNoUser(email) == NoId

\* db.users.find_one({"email": email}): the first match in store order
FindUserByEmail(email) ==
  IF \E i \in 1..Len(users) : users[i].email = email
  THEN CHOOSE i \in 1..Len(users) :
         /\ users[i].email = email
         /\ \A j \in 1..(i - 1) : users[j].email # email
  ELSE NoId

\* a decode that does not look at exp
JwtDecodeWithoutExpiry(token) == IF token.sig # "ok" THEN "invalid" ELSE "ok"

\* jwt.decode(token, JWT_SECRET, algorithms=[JWT_ALGORITHM]): "invalid" for a
\* signature that does not verify, "expired" once exp has passed
JwtDecode(token) ==
  IF token.sig # "ok" THEN "invalid"
  ELSE IF token.exp <= now THEN "expired"
  ELSE "ok"

\* get_current_user: the id of the authenticated user, or NoId for each of
\* the 401 outcomes
CurrentUser(cred) ==
  IF cred = NoCred THEN NoId
  ELSE IF JwtDecode(cred) # "ok" THEN NoId
  ELSE IF cred.user_id = NoId THEN NoId
  ELSE FindUserById(cred.user_id)

\* a find_one that filters by id only
FindChatOfAnyUser(cid, uid) ==
  IF cid \in DOMAIN chats THEN chats[cid] ELSE NoChat

\* db.chats.find_one({"id": chat_id, "user_id": uid})
FindChat(cid, uid) ==
  IF cid \in DOMAIN chats /\ chats[cid].user_id = uid THEN chats[cid] ELSE NoChat

\* db.documents.find_one({"id": document_id, "user_id": uid})
FindDocument(did, uid) ==
  IF did \in DOMAIN documents /\ documents[did].user_id = uid
  THEN documents[did] ELSE NoChat

\* a function without the key k (delete_one)
Without(f, k) == [x \in DOMAIN f \ {k} |-> f[x]]

\* a function with the new key k (insert_one)
With(f, k, v) == [x \in DOMAIN f \cup {k} |-> IF x = k THEN v ELSE f[x]]

\* ------------------------------------------------------ request slots ----
NoForm == [kind |-> "none"]
NoPrompt == [kind |-> "none"]

IdleReq ==
  [pc |-> "idle", op |-> "none", cred |-> NoCred, caller |-> NoId,
   target |-> NoId, message |-> NoMsg, mode |-> "none", fmt |-> "none",
   form |-> NoForm, chat |-> NoChat, doc |-> NoChat, prompt |-> NoPrompt,
   created |-> FALSE, addr |-> "none", fresh |-> FALSE, calls |-> <<>>]

NoResponse ==
  [seq |-> 0, op |-> "none", cred |-> NoCred, caller |-> NoId, target |-> NoId,
   message |-> NoMsg, fmt |-> "none", form |-> NoForm, created |-> FALSE,
   addr |-> "none", fresh |-> FALSE, calls |-> <<>>, status |-> 0,
   body |-> NoBody]

Free(p) == rq[p].pc = "idle"

\* the request has made the call: calls lists, in order, the calls of a
\* request to the text extraction, to the generation service and to the
\* query and statistics operations of the retrieval engine
Called(r, call) == [r EXCEPT !.calls = Append(@, call)]

\* extract_text_from_file(...), model.generate_content(...),
\* rag_pipeline.query(...), rag_pipeline.get_stats()
ExtractCall == [fn |-> "extract_text_from_file"]
GenerateCall(prompt) == [fn |-> "generate_content", prompt |-> prompt]
QueryCall(query, top_k, use_rerank) ==
  [fn |-> "query", query |-> query, top_k |-> top_k, use_rerank |-> use_rerank]
StatsCall == [fn |-> "get_stats"]

\* a new request: the dependency get_current_user runs before the handler
Begin(op, cred, target) ==
  [IdleReq EXCEPT !.op = op, !.cred = cred, !.caller = CurrentUser(cred),
                  !.target = target]

\* the response that ends request r of task p
Respond(p, r, status, body) ==
  /\ resp' = [seq |-> 1 - resp.seq, op |-> r.op, cred |-> r.cred,
              caller |-> r.caller, target |-> r.target, message |-> r.message,
              fmt |-> r.fmt, form |-> r.form, created |-> r.created,
              addr |-> r.addr, fresh |-> r.fresh, calls |-> r.calls,
              status |-> status, body |-> body]
  /\ rq' = [rq EXCEPT ![p] = IdleReq]

\* the task is suspended at its next database call
Suspend(p, r) ==
  /\ rq' = [rq EXCEPT ![p] = r]
  /\ UNCHANGED resp

Detail(text) == [kind |-> "detail", detail |-> text]

\* raise HTTPException(status_code=401, ...) of get_current_user
Unauthenticated(p, r) == Respond(p, r, 401, Detail("Not authenticated"))

\* a validation that refuses the request after the handler has inserted
\* its chat
InvalidAfterInsert(p, r, field) ==
  /\ Respond(p, r, 422, [kind |-> "validation", field |-> field])
  /\ nextChat <= MaxChats
  /\ chats' = With(chats, nextChat, Chat(r.caller, Title(r.message)))
  /\ nextChat' = nextChat + 1
  /\ UNCHANGED <<users, documents, rag, nextDoc, hits>>

\* the 422 of a request model whose validator raised: the body is validated
\* before the route function is called
Invalid(p, r, field) ==
  /\ Respond(p, r, 422, [kind |-> "validation", field |-> field])
  /\ UNCHANGED <<users, chats, documents, rag, nextChat, nextDoc, hits>>

\* ------------------------------------------------------- rate limiter ----
\* the routes that carry @limiter.limit
LimitedRoutes ==
  {"health", "signup", "login", "session", "send", "analyze", "rag_query"}

\* the network addresses whose counters are followed
Addresses == {"10.0.0.1", "10.0.0.2"}

\* the address of a client whose requests stay far below every limit; the
\* counters the limiter keeps for it are not followed
Quiet == "192.0.2.1"

Limit(route) ==
  CASE route = "health" -> HealthLimit
    [] route = "signup" -> SignupLimit
    [] route = "login" -> LoginLimit
    [] route = "session" -> SessionLimit
    [] route = "send" -> SendLimit
    [] route = "analyze" -> AnalyzeLimit
    [] route = "rag_query" -> RagQueryLimit

\* Limiter(key_func=get_remote_address): one counter per limited route and
\* remote address, whoever the authenticated caller is
LimitKey(r) == <<r.op, r.addr>>

\* the counters of the limiter, the requests admitted in the current window
\* of each followed key
NoHits == [k \in LimitedRoutes \X Addresses |-> 0]

\* the fixed window of the key is full; fresh says that the window has
\* expired by the time the request arrives
OverLimit(r) ==
  /\ LimitKey(r) \in DOMAIN hits
  /\ ~r.fresh
  /\ hits[LimitKey(r)] >= Limit(r.op)

\* the admitted request is counted, in a new window when the last expired
Hit(r) ==
  IF LimitKey(r) \in DOMAIN hits
  THEN [hits EXCEPT ![LimitKey(r)] = IF r.fresh THEN 1 ELSE @ + 1]
  ELSE hits

\* a limiter whose refusal comes after the handler has inserted its chat
RateLimitedAfterInsert(p, r) ==
  /\ Respond(p, r, 429, [kind |-> "error", error |-> "Rate limit exceeded"])
  /\ nextChat <= MaxChats
  /\ chats' = With(chats, nextChat, Chat(r.caller, Title(r.message)))
  /\ nextChat' = nextChat + 1
  /\ UNCHANGED <<users, documents, rag, nextDoc, hits>>

\* RateLimitExceeded raised by the wrapper of the route function before the
\* function body runs, answered 429 by _rate_limit_exceeded_handler
RateLimited(p, r) ==
  /\ Respond(p, r, 429, [kind |-> "error", error |-> "Rate limit exceeded"])
  /\ UNCHANGED <<users, chats, documents, rag, nextChat, nextDoc, hits>>

\* GET /health
HealthCheck(p, addr, fresh) ==
  /\ Free(p)
  /\ LET r == [IdleReq EXCEPT !.op = "health", !.addr = addr, !.fresh = fresh] IN
     IF OverLimit(r)
     THEN RateLimited(p, r)
     ELSE /\ hits' = Hit(r)
          /\ Respond(p, r, 200, [kind |-> "health", status |-> "healthy"])
  /\ UNCHANGED <<now, users, chats, documents, rag, nextChat, nextDoc>>

\* ----------------------------------------------------------- chat/send ----
\* the messages of ms that were sent since the initial state; MaxMsgs bounds
\* these per chat
Sent(ms) == SelectSeq(ms, LAMBDA m : m.timestamp >= 0)

\* send_message up to the first database call.  The dependency
\* get_current_user is resolved first, then the body is validated
\* (SendMessageRequest, whose validator returns the sanitized message), then
\* the route function is called: its limiter wrapper, then insert_one of a
\* new chat or find_one of the addressed chat.
SendResolve(p, addr, fresh, cred, cid, m, mode) ==
  /\ Free(p)
  /\ LET v == Sanitize(m, MessageMax)
         r == [Begin("send", cred, cid) EXCEPT !.message = v, !.mode = mode,
                                               !.addr = addr, !.fresh = fresh]
     IN
     IF r.caller = NoId
     THEN /\ Unauthenticated(p, r)
          /\ UNCHANGED <<chats, nextChat, hits>>
     ELSE IF Len(v) < MinMessageLen
     THEN Invalid(p, r, "message")
     ELSE IF OverLimit(r)
     THEN RateLimited(p, r)
     ELSE IF cid = NoId
     THEN /\ nextChat <= MaxChats
          /\ hits' = Hit(r)
          /\ chats' = With(chats, nextChat, Chat(r.caller, Title(v)))
          /\ nextChat' = nextChat + 1
          /\ Suspend(p, [r EXCEPT !.pc = "send_generate", !.target = nextChat,
                                  !.created = TRUE,
                                  !.chat = Chat(r.caller, Title(v))])
     ELSE IF FindChat(cid, r.caller) = NoChat
     THEN /\ hits' = Hit(r)
          /\ Respond(p, r, 404, Detail("Chat not found"))
          /\ UNCHANGED <<chats, nextChat>>
     ELSE /\ Len(Sent(chats[cid].messages)) + 2 <= MaxMsgs
          /\ hits' = Hit(r)
          /\ Suspend(p, [r EXCEPT !.pc = "send_generate",
                                  !.chat = FindChat(cid, r.caller)])
          /\ UNCHANGED <<chats, nextChat>>
  /\ UNCHANGED <<now, users, documents, rag, nextDoc>>

\* a transcript of chat.messages[:5]
TranscriptFromStart(messages) ==
  [i \in 1..Min(Len(messages), ContextWindow) |->
     [sender |-> messages[i].sender, content |-> messages[i].content]]

\* chat.messages[-5:] joined into the conversation history of the prompt
Transcript(messages) ==
  [i \in 1..Min(Len(messages), ContextWindow) |->
     [sender |-> LastN(messages, ContextWindow)[i].sender,
      content |-> LastN(messages, ContextWindow)[i].content]]

\* the prompt of send_message: the mode instruction and the history
ChatPrompt(mode, messages) ==
  [kind |-> "chat",
   instruction |-> IF mode = "concise" THEN "CONCISE" ELSE "DETAILED",
   history |-> Transcript(messages)]

\* a send_message that stored the user message when the generation failed
SendGenerateKeepingUserMessage(p, generated, reply) ==
  /\ rq[p].pc = "send_generate"
  /\ LET withUser == Append(rq[p].chat.messages,
                            Message("user", rq[p].message))
         r == Called(rq[p], GenerateCall(ChatPrompt(rq[p].mode, withUser)))
         withAi == Append(withUser, Message("ai", reply))
     IN IF ~generated
        THEN /\ Respond(p, r, 500, Detail("Failed to generate response"))
             /\ chats' = IF r.target \in DOMAIN chats
                         THEN [chats EXCEPT ![r.target].messages = withUser]
                         ELSE chats
        ELSE /\ Suspend(p, [r EXCEPT !.pc = "send_update",
                                     !.chat.messages = withAi,
                                     !.chat.updated_at = now,
                                     !.prompt = ChatPrompt(r.mode, withUser)])
             /\ UNCHANGED chats
  /\ UNCHANGED <<now, users, documents, rag, nextChat, nextDoc, hits>>

\* chat.messages.append(user_msg), then the generation call on the prompt;
\* on success chat.messages.append(ai_msg) and chat.updated_at = now, on
\* failure the except branch answers 500
SendGenerate(p, generated, reply) ==
  /\ rq[p].pc = "send_generate"
  /\ LET withUser == Append(rq[p].chat.messages,
                            Message("user", rq[p].message))
         r == Called(rq[p], GenerateCall(ChatPrompt(rq[p].mode, withUser)))
         withAi == Append(withUser, Message("ai", reply))
     IN IF ~generated
        THEN Respond(p, r, 500, Detail("Failed to generate response"))
        ELSE Suspend(p, [r EXCEPT !.pc = "send_update",
                                  !.chat.messages = withAi,
                                  !.chat.updated_at = now,
                                  !.prompt = ChatPrompt(r.mode, withUser)])
  /\ UNCHANGED <<now, users, chats, documents, rag, nextChat, nextDoc, hits>>

\* a send_message whose update stored the two new messages only
SendUpdateNewMessagesOnly(p) ==
  /\ rq[p].pc = "send_update"
  /\ LET r == rq[p] IN
     /\ chats' = IF r.target \in DOMAIN chats
                 THEN [chats EXCEPT ![r.target].messages = LastN(r.chat.messages, 2),
                                    ![r.target].updated_at = r.chat.updated_at,
                                    ![r.target].title = r.chat.title]
                 ELSE chats
     /\ Respond(p, r, 200,
                [kind |-> "sent", chat_id |-> r.target,
                 message |-> r.chat.messages[Len(r.chat.messages)]])
  /\ UNCHANGED <<now, users, documents, rag, nextChat, nextDoc, hits>>

\* a send_message whose update derives the title from the new message
SendUpdateRetitling(p) ==
  /\ rq[p].pc = "send_update"
  /\ LET r == rq[p] IN
     /\ chats' = IF r.target \in DOMAIN chats
                 THEN [chats EXCEPT ![r.target].messages = r.chat.messages,
                                    ![r.target].updated_at = r.chat.updated_at,
                                    ![r.target].title = Title(r.message)]
                 ELSE chats
     /\ Respond(p, r, 200,
                [kind |-> "sent", chat_id |-> r.target,
                 message |-> r.chat.messages[Len(r.chat.messages)]])
  /\ UNCHANGED <<now, users, documents, rag, nextChat, nextDoc, hits>>

\* db.chats.update_one({"id": chat_id}, {"$set": {messages, updated_at,
\* title}}) and the 200 response; a filter that matches nothing writes nothing
SendUpdate(p) ==
  /\ rq[p].pc = "send_update"
  /\ LET r == rq[p] IN
     /\ chats' = IF r.target \in DOMAIN chats
                 THEN [chats EXCEPT ![r.target].messages = r.chat.messages,
                                    ![r.target].updated_at = r.chat.updated_at,
                                    ![r.target].title = r.chat.title]
                 ELSE chats
     /\ Respond(p, r, 200,
                [kind |-> "sent", chat_id |-> r.target,
                 message |-> r.chat.messages[Len(r.chat.messages)]])
  /\ UNCHANGED <<now, users, documents, rag, nextChat, nextDoc, hits>>

\* ------------------------------------------------- other chat routes ----
\* a sort by updated_at that returns the oldest chat first
SortedChatsOldestFirst(uid) ==
  LET own == {c \in DOMAIN chats : chats[c].user_id = uid} IN
  {s \in [1..Cardinality(own) -> own] :
     /\ \A i, j \in DOMAIN s : i # j => s[i] # s[j]
     /\ \A i, j \in DOMAIN s :
          i < j => chats[s[i]].updated_at <= chats[s[j]].updated_at}

\* the orders in which sort("updated_at", -1) can return the chats of uid:
\* newest first, equal timestamps in either order
SortedChats(uid) ==
  LET own == {c \in DOMAIN chats : chats[c].user_id = uid} IN
  {s \in [1..Cardinality(own) -> own] :
     /\ \A i, j \in DOMAIN s : i # j => s[i] # s[j]
     /\ \A i, j \in DOMAIN s :
          i < j => chats[s[i]].updated_at >= chats[s[j]].updated_at}

\* get_chat_history: find({"user_id": uid}).sort("updated_at", -1).to_list(100)
GetChatHistory(p, cred) ==
  /\ Free(p)
  /\ LET r == Begin("history", cred, NoId) IN
     IF r.caller = NoId
     THEN Unauthenticated(p, r)
     ELSE \E s \in SortedChats(r.caller) :
            Respond(p, r, 200,
                    [kind |-> "chats",
                     chats |-> [i \in 1..Min(Len(s), ListLimit) |->
                                  [id |-> s[i], chat |-> chats[s[i]]]]])
  /\ UNCHANGED <<now, users, chats, documents, rag, nextChat, nextDoc, hits>>

\* get_chat
GetChat(p, cred, cid) ==
  /\ Free(p)
  /\ LET r == Begin("get_chat", cred, cid) IN
     IF r.caller = NoId
     THEN Unauthenticated(p, r)
     ELSE IF FindChat(cid, r.caller) = NoChat
     THEN Respond(p, r, 404, Detail("Chat not found"))
     ELSE Respond(p, r, 200, [kind |-> "chat", id |-> cid,
                              chat |-> FindChat(cid, r.caller)])
  /\ UNCHANGED <<now, users, chats, documents, rag, nextChat, nextDoc, hits>>

\* delete_chat: delete_one({"id": chat_id, "user_id": uid})
DeleteChat(p, cred, cid) ==
  /\ Free(p)
  /\ LET r == Begin("delete_chat", cred, cid) IN
     IF r.caller = NoId
     THEN /\ Unauthenticated(p, r)
          /\ UNCHANGED chats
     ELSE IF FindChat(cid, r.caller) = NoChat
     THEN /\ Respond(p, r, 404, Detail("Chat not found"))
          /\ UNCHANGED chats
     ELSE /\ chats' = Without(chats, cid)
          /\ Respond(p, r, 200, Detail("Chat deleted successfully"))
  /\ UNCHANGED <<now, users, documents, rag, nextChat, nextDoc, hits>>

\* format not in ["pdf", "docx", "txt"]
ValidFormat(fmt) == fmt \in {"pdf", "docx", "txt"}

\* an export_chat that looks the chat up before it checks the format
ExportChatLookupFirst(p, cred, cid, fmt, formatted) ==
  /\ Free(p)
  /\ LET r == [Begin("export_chat", cred, cid) EXCEPT !.fmt = fmt] IN
     IF r.caller = NoId
     THEN Unauthenticated(p, r)
     ELSE IF FindChat(cid, r.caller) = NoChat
     THEN Respond(p, r, 404, Detail("Chat not found"))
     ELSE IF ~ValidFormat(fmt)
     THEN Respond(p, r, 400, Detail("Invalid format"))
     ELSE IF ~formatted
     THEN Respond(p, r, 500, Detail("Failed to export chat"))
     ELSE Respond(p, r, 200, [kind |-> "file", fmt |-> fmt, id |-> cid,
                              chat |-> FindChat(cid, r.caller)])
  /\ UNCHANGED <<now, users, chats, documents, rag, nextChat, nextDoc, hits>>

\* export_chat: the format check, the ownership-scoped find_one, then the
\* formatter, whose exception is answered 500
ExportChat(p, cred, cid, fmt, formatted) ==
  /\ Free(p)
  /\ LET r == [Begin("export_chat", cred, cid) EXCEPT !.fmt = fmt] IN
     IF r.caller = NoId
     THEN Unauthenticated(p, r)
     ELSE IF ~ValidFormat(fmt)
     THEN Respond(p, r, 400, Detail("Invalid format"))
     ELSE IF FindChat(cid, r.caller) = NoChat
     THEN Respond(p, r, 404, Detail("Chat not found"))
     ELSE IF ~formatted
     THEN Respond(p, r, 500, Detail("Failed to export chat"))
     ELSE Respond(p, r, 200, [kind |-> "file", fmt |-> fmt, id |-> cid,
                              chat |-> FindChat(cid, r.caller)])
  /\ UNCHANGED <<now, users, chats, documents, rag, nextChat, nextDoc, hits>>

\* ------------------------------------------------------- documents ----
\* the analysis prompt: the document type and extracted_text[:5000]
AnalysisPrompt(document_type, text) ==
  [kind |-> "analysis", document_type |-> document_type,
   text |-> Take(text, PromptTextMax)]

\* not extracted_text or len(extracted_text.strip()) < 10
InsufficientText(text) == text = <<>> \/ Len(Strip(text)) < MinTextLen

\* an analyze_document that hands the file to the text extraction before
\* it looks at the file type
AnalyzeDocumentExtractingFirst(p, addr, fresh, cred, file, extracted, text, generated, analysis) ==
  /\ Free(p)
  /\ LET r == [Begin("analyze", cred, NoId) EXCEPT
                 !.addr = addr, !.fresh = fresh,
                 !.form = [file |-> file, extracted |-> extracted,
                           text |-> text, generated |-> generated]]
     IN
     IF r.caller = NoId
     THEN /\ Unauthenticated(p, r)
          /\ UNCHANGED <<nextDoc, hits>>
     ELSE IF OverLimit(r)
     THEN RateLimited(p, r)
     ELSE IF ~file.allowed
     THEN /\ hits' = Hit(r)
          /\ Respond(p, Called(r, ExtractCall), 400,
                     Detail("Unsupported file type"))
          /\ UNCHANGED nextDoc
     ELSE IF file.too_large
     THEN /\ hits' = Hit(r)
          /\ Respond(p, r, 400, Detail("File too large"))
          /\ UNCHANGED nextDoc
     ELSE IF ~extracted \/ InsufficientText(text)
     THEN /\ hits' = Hit(r)
          /\ Respond(p, Called(r, ExtractCall), 500,
                     Detail("Failed to analyze document"))
          /\ UNCHANGED nextDoc
     ELSE IF ~generated
     THEN /\ hits' = Hit(r)
          /\ Respond(p, Called(Called(r, ExtractCall),
                            GenerateCall(AnalysisPrompt(file.document_type, text))), 500,
                     Detail("Failed to analyze document"))
          /\ UNCHANGED nextDoc
     ELSE /\ nextDoc <= MaxDocs
          /\ hits' = Hit(r)
          /\ nextDoc' = nextDoc + 1
          /\ Suspend(p, [Called(Called(r, ExtractCall),
                            GenerateCall(AnalysisPrompt(file.document_type, text))) EXCEPT
                           !.pc = "analyze_insert", !.target = nextDoc,
                           !.message = text,
                           !.prompt = AnalysisPrompt(file.document_type, text),
                           !.doc = [user_id |-> r.caller,
                                    filename |-> file.filename,
                                    document_type |-> file.document_type,
                                    extracted_text |-> Take(text, StoredTextMax),
                                    analysis |-> analysis,
                                    created_at |-> now]])
  /\ UNCHANGED <<now, users, chats, documents, rag, nextChat>>

\* analyze_document up to the insert: get_current_user, the type and size
\* checks, text extraction and the generation call.  Everything raised
\* inside the try block, the HTTPException of the text check included, is
\* caught by "except Exception" and answered 500.
AnalyzeDocument(p, addr, fresh, cred, file, extracted, text, generated, analysis) ==
  /\ Free(p)
  /\ LET r == [Begin("analyze", cred, NoId) EXCEPT
                 !.addr = addr, !.fresh = fresh,
                 !.form = [file |-> file, extracted |-> extracted,
                           text |-> text, generated |-> generated]]
     IN
     IF r.caller = NoId
     THEN /\ Unauthenticated(p, r)
          /\ UNCHANGED <<nextDoc, hits>>
     ELSE IF OverLimit(r)
     THEN RateLimited(p, r)
     ELSE IF ~file.allowed
     THEN /\ hits' = Hit(r)
          /\ Respond(p, r, 400, Detail("Unsupported file type"))
          /\ UNCHANGED nextDoc
     ELSE IF file.too_large
     THEN /\ hits' = Hit(r)
          /\ Respond(p, r, 400, Detail("File too large"))
          /\ UNCHANGED nextDoc
     ELSE IF ~extracted \/ InsufficientText(text)
     THEN /\ hits' = Hit(r)
          /\ Respond(p, Called(r, ExtractCall), 500,
                     Detail("Failed to analyze document"))
          /\ UNCHANGED nextDoc
     ELSE IF ~generated
     THEN /\ hits' = Hit(r)
          /\ Respond(p, Called(Called(r, ExtractCall),
                            GenerateCall(AnalysisPrompt(file.document_type, text))), 500,
                     Detail("Failed to analyze document"))
          /\ UNCHANGED nextDoc
     ELSE /\ nextDoc <= MaxDocs
          /\ hits' = Hit(r)
          /\ nextDoc' = nextDoc + 1
          /\ Suspend(p, [Called(Called(r, ExtractCall),
                            GenerateCall(AnalysisPrompt(file.document_type, text))) EXCEPT
                           !.pc = "analyze_insert", !.target = nextDoc,
                           !.message = text,
                           !.prompt = AnalysisPrompt(file.document_type, text),
                           !.doc = [user_id |-> r.caller,
                                    filename |-> file.filename,
                                    document_type |-> file.document_type,
                                    extracted_text |-> Take(text, StoredTextMax),
                                    analysis |-> analysis,
                                    created_at |-> now]])
  /\ UNCHANGED <<now, users, chats, documents, rag, nextChat>>

\* an analyze_document that lets the exception of add_documents through to
\* its outer except branch
AnalyzeInsertFailingWithIndex(p, indexed) ==
  /\ rq[p].pc = "analyze_insert"
  /\ LET r == rq[p] IN
     /\ documents' = With(documents, r.target, r.doc)
     /\ rag' = IF indexed THEN rag \cup {r.target} ELSE rag
     /\ IF indexed
        THEN Respond(p, r, 200,
                     [kind |-> "analysis", document_id |-> r.target,
                      filename |-> r.doc.filename, analysis |-> r.doc.analysis,
                      extracted_text_length |-> Len(r.message)])
        ELSE Respond(p, r, 500, Detail("Failed to analyze document"))
  /\ UNCHANGED <<now, users, chats, nextChat, nextDoc, hits>>

\* db.documents.insert_one(document), then the best-effort add_documents
\* whose exception is logged and swallowed, then the 200 response
AnalyzeInsert(p, indexed) ==
  /\ rq[p].pc = "analyze_insert"
  /\ LET r == rq[p] IN
     /\ documents' = With(documents, r.target, r.doc)
     /\ rag' = IF indexed THEN rag \cup {r.target} ELSE rag
     /\ Respond(p, r, 200,
                [kind |-> "analysis", document_id |-> r.target,
                 filename |-> r.doc.filename, analysis |-> r.doc.analysis,
                 extracted_text_length |-> Len(r.message)])
  /\ UNCHANGED <<now, users, chats, nextChat, nextDoc, hits>>

\* the orders in which sort("created_at", -1) can return the documents of uid
SortedDocuments(uid) ==
  LET own == {d \in DOMAIN documents : documents[d].user_id = uid} IN
  {s \in [1..Cardinality(own) -> own] :
     /\ \A i, j \in DOMAIN s : i # j => s[i] # s[j]
     /\ \A i, j \in DOMAIN s :
          i < j => documents[s[i]].created_at >= documents[s[j]].created_at}

\* the projection {"_id": 0, "extracted_text": 0}
Listed(d) ==
  [user_id |-> d.user_id, filename |-> d.filename,
   document_type |-> d.document_type, analysis |-> d.analysis,
   created_at |-> d.created_at]

\* get_documents
GetDocuments(p, cred) ==
  /\ Free(p)
  /\ LET r == Begin("documents", cred, NoId) IN
     IF r.caller = NoId
     THEN Unauthenticated(p, r)
     ELSE \E s \in SortedDocuments(r.caller) :
            Respond(p, r, 200,
                    [kind |-> "documents",
                     documents |-> [i \in 1..Min(Len(s), ListLimit) |->
                                      [id |-> s[i],
                                       doc |-> Listed(documents[s[i]])]]])
  /\ UNCHANGED <<now, users, chats, documents, rag, nextChat, nextDoc, hits>>

\* delete_document: delete_one({"id": document_id, "user_id": uid})
DeleteDocument(p, cred, did) ==
  /\ Free(p)
  /\ LET r == Begin("delete_document", cred, did) IN
     IF r.caller = NoId
     THEN /\ Unauthenticated(p, r)
          /\ UNCHANGED documents
     ELSE IF FindDocument(did, r.caller) = NoChat
     THEN /\ Respond(p, r, 404, Detail("Document not found"))
          /\ UNCHANGED documents
     ELSE /\ documents' = Without(documents, did)
          /\ Respond(p, r, 200, Detail("Document deleted successfully"))
  /\ UNCHANGED <<now, users, chats, rag, nextChat, nextDoc, hits>>

\* export_document_analysis
ExportDocument(p, cred, did, fmt, formatted) ==
  /\ Free(p)
  /\ LET r == [Begin("export_document", cred, did) EXCEPT !.fmt = fmt] IN
     IF r.caller = NoId
     THEN Unauthenticated(p, r)
     ELSE IF ~ValidFormat(fmt)
     THEN Respond(p, r, 400, Detail("Invalid format"))
     ELSE IF FindDocument(did, r.caller) = NoChat
     THEN Respond(p, r, 404, Detail("Document not found"))
     ELSE IF ~formatted
     THEN Respond(p, r, 500, Detail("Failed to export document"))
     ELSE Respond(p, r, 200, [kind |-> "file", fmt |-> fmt, id |-> did,
                              doc |-> FindDocument(did, r.caller)])
  /\ UNCHANGED <<now, users, chats, documents, rag, nextChat, nextDoc, hits>>

\* ------------------------------------------------------------- auth ----
\* User(name=..., email=..., auth_provider=...).model_dump(); password_hash
\* is the key signup adds, NoHash the dict without it
User(name, email, avatar, provider, hash) ==
  [name |-> name, email |-> email, avatar_url |-> avatar,
   auth_provider |-> provider, password_hash |-> hash,
   preferences |-> "default", created_at |-> now, last_active |-> now]

\* the "user" object of the signup, login and session responses
Profile(uid, u) ==
  [id |-> uid, name |-> u.name, email |-> u.email, avatar_url |-> u.avatar_url]

\* email: EmailStr of the request models: one "@" with a local part before
\* it and, after it, a domain with a period inside
EmailStr(email) ==
  \E i \in 2..Len(email), j \in 1..Len(email) :
    /\ email[i] = "@"
    /\ \A k \in 1..Len(email) : (email[k] = "@") => (k = i)
    /\ i + 1 < j
    /\ j < Len(email)
    /\ email[j] = "."
    /\ \A k \in 1..Len(email) : email[k] \notin Whitespace

\* signup up to its find_one({"email": ...}): the body is validated
\* (UserCreate, whose validator returns the sanitized name) before the route
\* function and its limiter wrapper are called; 400 for a registered email
SignupCheck(p, addr, fresh, name, email, password) ==
  /\ Free(p)
  /\ LET v == Sanitize(name, NameMax)
         r == [IdleReq EXCEPT !.op = "signup", !.addr = addr, !.fresh = fresh,
                 !.form = [name |-> v, email |-> email,
                           password |-> password]]
     IN
     IF Len(v) < MinNameLen
     THEN Invalid(p, r, "name")
     ELSE IF ~EmailStr(email)
     THEN Invalid(p, r, "email")
     ELSE IF Len(password) < MinPasswordLen
     THEN Invalid(p, r, "password")
     ELSE IF OverLimit(r)
     THEN RateLimited(p, r)
     ELSE IF FindUserByEmail(email) # NoId
     THEN Respond(p, r, 400, Detail("Email already registered")) /\ hits' = Hit(r)
     ELSE Suspend(p, [r EXCEPT !.pc = "signup_insert"]) /\ hits' = Hit(r)
  /\ UNCHANGED <<now, users, chats, documents, rag, nextChat, nextDoc>>

\* signup from insert_one on: the user with the bcrypt hash is stored and a
\* token for the new id returned
SignupInsert(p) ==
  /\ rq[p].pc = "signup_insert"
  /\ Len(users) < MaxUsers
  /\ LET r == rq[p]
         uid == Len(users) + 1
         user == User(r.form.name, r.form.email, "none", "email",
                      HashPw(r.form.password))
     IN /\ users' = Append(users, user)
        /\ Respond(p, r, 200, [kind |-> "session", token |-> IssueToken(uid),
                               user |-> Profile(uid, user)])
  /\ UNCHANGED <<now, chats, documents, rag, nextChat, nextDoc, hits>>

\* login: find_one by email, user['password_hash'] (a KeyError, answered 500,
\* for a user stored without one), bcrypt.checkpw, then the token
Login(p, addr, fresh, email, password) ==
  /\ Free(p)
  /\ LET r == [IdleReq EXCEPT !.op = "login", !.addr = addr, !.fresh = fresh,
                 !.form = [email |-> email, password |-> password]]
         uid == FindUserByEmail(email)
     IN IF ~EmailStr(email)
        THEN Invalid(p, r, "email")
        ELSE IF OverLimit(r)
        THEN RateLimited(p, r)
        ELSE /\ hits' = Hit(r)
             /\ IF uid = NoId
                THEN Respond(p, r, 401, Detail("Invalid email or password"))
                ELSE IF users[uid].password_hash = NoHash
                THEN Respond(p, r, 500, Detail("Internal Server Error"))
                ELSE IF ~CheckPw(password, users[uid].password_hash)
                THEN Respond(p, r, 401, Detail("Invalid email or password"))
                ELSE Respond(p, r, 200,
                             [kind |-> "session", token |-> IssueToken(uid),
                              user |-> Profile(uid, users[uid])])
  /\ UNCHANGED <<now, users, chats, documents, rag, nextChat, nextDoc>>

\* create_session up to its find_one: 400 for a missing or malformed email,
\* the token of the stored user when the email is known
SessionCheck(p, addr, fresh, email, name, avatar, provider) ==
  /\ Free(p)
  /\ LET r == [IdleReq EXCEPT !.op = "session", !.addr = addr, !.fresh = fresh,
                 !.form = [email |-> email, name |-> name, avatar |-> avatar,
                           provider |-> provider]]
         uid == FindUserByEmail(email)
     IN IF OverLimit(r)
        THEN RateLimited(p, r)
        ELSE /\ hits' = Hit(r)
             /\ IF email = <<>> \/ ~ValidateEmail(email)
                THEN Respond(p, r, 400, Detail("Invalid email"))
                ELSE IF uid # NoId
                THEN Respond(p, r, 200,
                             [kind |-> "session", token |-> IssueToken(uid),
                              user |-> Profile(uid, users[uid])])
                ELSE Suspend(p, [r EXCEPT !.pc = "session_insert"])
  /\ UNCHANGED <<now, users, chats, documents, rag, nextChat, nextDoc>>

\* a create_session that stores its user with a password hash
SessionInsertWithHash(p) ==
  /\ rq[p].pc = "session_insert"
  /\ Len(users) < MaxUsers
  /\ LET r == rq[p]
         uid == Len(users) + 1
         name == IF r.form.name = <<>> THEN BeforeAt(r.form.email)
                 ELSE r.form.name
         user == User(Sanitize(name, 100), r.form.email, r.form.avatar,
                      r.form.provider, HashPw(<<>>))
     IN /\ users' = Append(users, user)
        /\ Respond(p, r, 200, [kind |-> "session", token |-> IssueToken(uid),
                               user |-> Profile(uid, user)])
  /\ UNCHANGED <<now, chats, documents, rag, nextChat, nextDoc, hits>>

\* create_session from insert_one on: a user without password_hash
SessionInsert(p) ==
  /\ rq[p].pc = "session_insert"
  /\ Len(users) < MaxUsers
  /\ LET r == rq[p]
         uid == Len(users) + 1
         name == IF r.form.name = <<>> THEN BeforeAt(r.form.email)
                 ELSE r.form.name
         user == User(Sanitize(name, 100), r.form.email, r.form.avatar,
                      r.form.provider, NoHash)
     IN /\ users' = Append(users, user)
        /\ Respond(p, r, 200, [kind |-> "session", token |-> IssueToken(uid),
                               user |-> Profile(uid, user)])
  /\ UNCHANGED <<now, chats, documents, rag, nextChat, nextDoc, hits>>

\* get_me
GetMe(p, cred) ==
  /\ Free(p)
  /\ LET r == Begin("me", cred, NoId) IN
     IF r.caller = NoId
     THEN Unauthenticated(p, r)
     ELSE Respond(p, r, 200, [kind |-> "profile",
                              user |-> Profile(r.caller, users[r.caller]),
                              preferences |-> users[r.caller].preferences])
  /\ UNCHANGED <<now, users, chats, documents, rag, nextChat, nextDoc, hits>>

\* a logout that touches last_active of its user
LogoutTouchingUser(p, cred) ==
  /\ Free(p)
  /\ LET r == Begin("logout", cred, NoId) IN
     IF r.caller = NoId
     THEN Unauthenticated(p, r) /\ UNCHANGED users
     ELSE /\ users' = [users EXCEPT ![r.caller].last_active = now]
          /\ Respond(p, r, 200, Detail("Logged out successfully"))
  /\ UNCHANGED <<now, chats, documents, rag, nextChat, nextDoc, hits>>

\* logout
Logout(p, cred) ==
  /\ Free(p)
  /\ LET r == Begin("logout", cred, NoId) IN
     IF r.caller = NoId
     THEN Unauthenticated(p, r)
     ELSE Respond(p, r, 200, Detail("Logged out successfully"))
  /\ UNCHANGED <<now, users, chats, documents, rag, nextChat, nextDoc, hits>>

\* what get_rag_pipeline() and the operation called on it come to: the
\* engine cannot be obtained, the operation raises, or it returns
EngineOutcomes == {"unavailable", "raises", "returns"}

\* an engine outcome and the value returned with it
Engine(outcome, returned) == [outcome |-> outcome, returned |-> returned]

\* a rag_query whose body reaches the handler unvalidated
RagQueryUnvalidated(p, addr, fresh, cred, query, top_k, use_rerank, engine) ==
  /\ Free(p)
  /\ LET r == [Begin("rag_query", cred, NoId) EXCEPT
                 !.message = query, !.addr = addr, !.fresh = fresh,
                 !.form = [query |-> query, top_k |-> top_k,
                           use_rerank |-> use_rerank, engine |-> engine]]
         q == Called(r, QueryCall(query, top_k, use_rerank))
     IN
     IF r.caller = NoId
     THEN Unauthenticated(p, r) /\ UNCHANGED hits
     ELSE IF OverLimit(r)
     THEN RateLimited(p, r)
     ELSE /\ hits' = Hit(r)
          /\ IF engine.outcome = "unavailable"
             THEN Respond(p, r, 500, Detail("Failed to process query"))
             ELSE IF engine.outcome = "raises"
             THEN Respond(p, q, 500, Detail("Failed to process query"))
             ELSE Respond(p, q, 200, [kind |-> "results", query |-> query,
                                      results |-> engine.returned])
  /\ UNCHANGED <<now, users, chats, documents, rag, nextChat, nextDoc>>

\* rag_query: get_current_user, the validation of RAGQueryRequest (the
\* sanitized query, top_k within ge=1, le=20), the limiter wrapper, then
\* get_rag_pipeline() and the query of the retrieval engine with the
\* validated fields; an exception of either is answered 500, the results
\* are returned next to the query
RagQuery(p, addr, fresh, cred, query, top_k, use_rerank, engine) ==
  /\ Free(p)
  /\ LET v == Sanitize(query, QueryMax)
         r == [Begin("rag_query", cred, NoId) EXCEPT
                 !.message = v, !.addr = addr, !.fresh = fresh,
                 !.form = [query |-> query, top_k |-> top_k,
                           use_rerank |-> use_rerank, engine |-> engine]]
         q == Called(r, QueryCall(v, top_k, use_rerank))
     IN
     IF r.caller = NoId
     THEN Unauthenticated(p, r) /\ UNCHANGED hits
     ELSE IF Len(v) < MinMessageLen
     THEN Invalid(p, r, "query")
     ELSE IF top_k < TopKMin \/ top_k > TopKMax
     THEN Invalid(p, r, "top_k")
     ELSE IF OverLimit(r)
     THEN RateLimited(p, r)
     ELSE /\ hits' = Hit(r)
          /\ IF engine.outcome = "unavailable"
             THEN Respond(p, r, 500, Detail("Failed to process query"))
             ELSE IF engine.outcome = "raises"
             THEN Respond(p, q, 500, Detail("Failed to process query"))
             ELSE Respond(p, q, 200, [kind |-> "results", query |-> v,
                                      results |-> engine.returned])
  /\ UNCHANGED <<now, users, chats, documents, rag, nextChat, nextDoc>>

\* the zeroed defaults of get_rag_stats
ZeroStats == [total_documents |-> 0, total_chunks |-> 0]

\* a get_rag_stats that lets the exception of the engine through
RagStatsPropagating(p, cred, engine) ==
  /\ Free(p)
  /\ LET r == [Begin("rag_stats", cred, NoId) EXCEPT
                 !.form = [engine |-> engine]]
         q == Called(r, StatsCall)
     IN
     IF r.caller = NoId
     THEN Unauthenticated(p, r)
     ELSE IF engine.outcome = "unavailable"
     THEN Respond(p, r, 500, Detail("Internal Server Error"))
     ELSE IF engine.outcome = "raises"
     THEN Respond(p, q, 500, Detail("Internal Server Error"))
     ELSE Respond(p, q, 200, engine.returned)
  /\ UNCHANGED <<now, users, chats, documents, rag, nextChat, nextDoc, hits>>

\* get_rag_stats: the stats of the engine, or the zeroed defaults when
\* get_rag_pipeline() or get_stats() raises
RagStats(p, cred, engine) ==
  /\ Free(p)
  /\ LET r == [Begin("rag_stats", cred, NoId) EXCEPT
                 !.form = [engine |-> engine]]
         q == Called(r, StatsCall)
     IN
     IF r.caller = NoId
     THEN Unauthenticated(p, r)
     ELSE IF engine.outcome = "unavailable"
     THEN Respond(p, r, 200, ZeroStats)
     ELSE IF engine.outcome = "raises"
     THEN Respond(p, q, 200, ZeroStats)
     ELSE Respond(p, q, 200, engine.returned)
  /\ UNCHANGED <<now, users, chats, documents, rag, nextChat, nextDoc, hits>>

\* the clock of datetime.now moves on by d days
Advance(d, limit) ==
  /\ now + d <= limit
  /\ now' = now + d
  /\ UNCHANGED <<users, chats, documents, rag, nextChat, nextDoc, rq, resp, hits>>

\* ------------------------------------------- conversations and documents ----
\* the inputs of the requests
Messages == {<<"a">>, <<"b">>}
Replies == {<<"r">>}
Formats == {"pdf", "txt", "xml"}
Files ==
  {[filename |-> "f.pdf", document_type |-> "legal_document",
    allowed |-> TRUE, too_large |-> FALSE],
   [filename |-> "f.pdf", document_type |-> "legal_document",
    allowed |-> TRUE, too_large |-> TRUE],
   [filename |-> "f.exe", document_type |-> "legal_document",
    allowed |-> FALSE, too_large |-> FALSE]}
Texts == {<<>>, <<" ", "a", "b", " ">>,
          <<"a", "b", "c", "d", "e", "f", "g", "h", "i", "j">>}

\* the uploads and what the collaborators make of them: a refused file, an
\* extraction that fails or yields too little, a generation that fails, and
\* the upload that passes
LongText == <<"a", "b", "c", "d", "e", "f", "g", "h", "i", "j">>
Uploads ==
  {[file |-> f, extracted |-> TRUE, text |-> LongText, generated |-> TRUE] :
     f \in Files}
  \cup
  {[file |-> f, extracted |-> e, text |-> t, generated |-> g] :
     f \in {x \in Files : x.allowed /\ ~x.too_large},
     e \in BOOLEAN, t \in Texts, g \in BOOLEAN}

\* two registered users
SeedUsers ==
  <<[name |-> <<"A", "n", "n">>, email |-> <<"a", "@", "x", ".", "i", "o">>,
     avatar_url |-> "none", auth_provider |-> "email",
     password_hash |-> HashPw(<<"p", "a", "s", "s", "w", "o", "r", "d">>),
     preferences |-> "default", created_at |-> 0, last_active |-> 0],
    [name |-> <<"B", "o", "b">>, email |-> <<"b", "@", "x", ".", "i", "o">>,
     avatar_url |-> "none", auth_provider |-> "email",
     password_hash |-> HashPw(<<"p", "a", "s", "s", "w", "o", "r", "D">>),
     preferences |-> "default", created_at |-> 0, last_active |-> 0]>>

\* the token the signup of user u returned
SeedToken(u) ==
  [kind |-> "bearer", user_id |-> u, exp |-> JWT_EXPIRATION, sig |-> "ok"]

SeedTokens == {SeedToken(u) : u \in 1..Len(SeedUsers)}

Init ==
  /\ now = 0
  /\ users = SeedUsers
  /\ chats = << >>
  /\ documents = << >>
  /\ rag = {}
  /\ nextChat = 1
  /\ nextDoc = 1
  /\ hits = NoHits
  /\ rq = [p \in Procs |-> IdleReq]
  /\ resp = NoResponse

\* overlapping chat/send requests, and deletions, of one user
Next ==
  \/ \E p \in Procs, cid \in 0..MaxChats, m \in Messages :
       SendResolve(p, Quiet, TRUE, SeedToken(1), cid, m, "detailed")
  \/ \E p \in Procs, generated \in BOOLEAN, reply \in Replies :
       SendGenerate(p, generated, reply)
  \/ \E p \in Procs : SendUpdate(p)
  \/ \E p \in Procs, cid \in 1..MaxChats : DeleteChat(p, SeedToken(1), cid)
  \/ Advance(1, MaxClock)

Spec == Init /\ [][Next]_vars

\* ------------------------------------------------ ownership of records ----
\* every chat and document route, issued by either user for any id
NextAccess ==
  \/ \E p \in Procs, cred \in SeedTokens :
       \/ \E cid \in 0..MaxChats : SendResolve(p, Quiet, TRUE, cred, cid, <<"a">>, "concise")
       \/ \E cid \in 1..MaxChats : GetChat(p, cred, cid)
       \/ \E cid \in 1..MaxChats : DeleteChat(p, cred, cid)
       \/ \E cid \in 1..MaxChats, fmt \in Formats, formatted \in BOOLEAN :
            ExportChat(p, cred, cid, fmt, formatted)
       \/ GetChatHistory(p, cred)
       \/ \E in \in {u \in Uploads : u.extracted /\ u.generated /\ u.text = LongText} :
            AnalyzeDocument(p, Quiet, TRUE, cred, in.file, in.extracted,
                            in.text, in.generated, <<"r">>)
       \/ GetDocuments(p, cred)
       \/ \E did \in 1..MaxDocs : DeleteDocument(p, cred, did)
       \/ \E did \in 1..MaxDocs, fmt \in Formats, formatted \in BOOLEAN :
            ExportDocument(p, cred, did, fmt, formatted)
  \/ \E p \in Procs, generated \in BOOLEAN, reply \in Replies :
       SendGenerate(p, generated, reply)
  \/ \E p \in Procs : SendUpdate(p)
  \/ \E p \in Procs, indexed \in BOOLEAN : AnalyzeInsert(p, indexed)

SpecAccess == Init /\ [][NextAccess]_vars

\* ------------------------------------------------------ accounts ----
Emails == {<<"a", "@", "x", ".", "i", "o">>, <<"b", "@", "x", ".", "i", "o">>}
BadEmails == {<<>>, <<"a", "@", "x">>}
Names == {<<"A", "n", "n">>}
Passwords == {<<"p", "a", "s", "s", "w", "o", "r", "d">>}
WrongPasswords == {<<"p", "a", "s", "s", "w", "o", "r", "D">>}

\* what a client can put into the Authorization header: nothing, or a
\* token with any user id, expiry and signature
Credentials ==
  {NoCred} \cup
  [kind : {"bearer"}, user_id : 0..MaxUsers,
   exp : {JWT_EXPIRATION, 2 * JWT_EXPIRATION}, sig : {"ok", "bad"}]

InitAuth ==
  /\ now = 0
  /\ users = << >>
  /\ chats = << >>
  /\ documents = << >>
  /\ rag = {}
  /\ nextChat = 1
  /\ nextDoc = 1
  /\ hits = NoHits
  /\ rq = [p \in Procs |-> IdleReq]
  /\ resp = NoResponse

NextAuth ==
  \/ \E p \in Procs, name \in Names, email \in Emails, password \in Passwords :
       SignupCheck(p, Quiet, TRUE, name, email, password)
  \/ \E p \in Procs : SignupInsert(p)
  \/ \E p \in Procs, email \in Emails, password \in Passwords \cup WrongPasswords :
       Login(p, Quiet, TRUE, email, password)
  \/ \E p \in Procs, email \in Emails \cup BadEmails :
       SessionCheck(p, Quiet, TRUE, email, <<>>, "none", "google")
  \/ \E p \in Procs : SessionInsert(p)
  \/ \E p \in Procs, cred \in Credentials : GetMe(p, cred)
  \/ \E p \in Procs, cred \in Credentials : Logout(p, cred)
  \/ Advance(JWT_EXPIRATION, JWT_EXPIRATION * MaxClock)

SpecAuth == InitAuth /\ [][NextAuth]_vars

\* ------------------------------------------------- refused requests ----
\* messages and queries that are empty once sanitized, names and passwords
\* below their minimum length, top_k around its range
BadMessages == {<<>>, <<" ", "<", ">", " ">>}
Queries == {<<"q">>}
TopKs == {TopKMin - 1, TopKMin, TopKMax, TopKMax + 1}
ShortNames == {<<" ", "A", " ">>}
ShortPasswords == {<<"p", "w">>}

\* no token, the token of the first user, and that token with a signature
\* that does not verify
RejectCredentials ==
  {NoCred, SeedToken(1), [SeedToken(1) EXCEPT !.sig = "bad"]}

\* every route with inputs its validation or get_current_user refuses,
\* next to inputs that pass, starting with an empty user store
NextReject ==
  \/ \E p \in Procs, name \in Names \cup ShortNames,
        email \in {<<"a", "@", "x", ".", "i", "o">>} \cup BadEmails,
        password \in Passwords \cup ShortPasswords :
       SignupCheck(p, Quiet, TRUE, name, email, password)
  \/ \E p \in Procs : SignupInsert(p)
  \/ \E p \in Procs, email \in BadEmails, password \in Passwords :
       Login(p, Quiet, TRUE, email, password)
  \/ \E p \in Procs, email \in BadEmails :
       SessionCheck(p, Quiet, TRUE, email, <<>>, "none", "google")
  \/ \E p \in Procs, cred \in RejectCredentials :
       \/ \E cid \in 0..MaxChats, m \in {<<"a">>} \cup BadMessages :
            SendResolve(p, Quiet, TRUE, cred, cid, m, "detailed")
       \/ \E q \in Queries \cup BadMessages, k \in TopKs :
            RagQuery(p, Quiet, TRUE, cred, q, k, TRUE, Engine("returns", <<>>))
       \/ \E in \in {u \in Uploads : u.extracted /\ u.generated /\ u.text = LongText} :
            AnalyzeDocument(p, Quiet, TRUE, cred, in.file, in.extracted,
                            in.text, in.generated, <<"r">>)
       \/ \E cid \in 1..MaxChats, fmt \in Formats :
            ExportChat(p, cred, cid, fmt, TRUE)
       \/ \E did \in 1..MaxDocs, fmt \in Formats :
            ExportDocument(p, cred, did, fmt, TRUE)
  \/ \E p \in Procs, reply \in Replies : SendGenerate(p, TRUE, reply)
  \/ \E p \in Procs : SendUpdate(p)
  \/ \E p \in Procs : AnalyzeInsert(p, TRUE)

SpecReject == InitAuth /\ [][NextReject]_vars

\* --------------------------------------------------- document analysis ----
\* one user uploads, lists and deletes documents; extraction, generation
\* and indexing succeed or fail
NextDocuments ==
  \/ \E p \in Procs, in \in Uploads :
       AnalyzeDocument(p, Quiet, TRUE, SeedToken(1), in.file, in.extracted,
                       in.text, in.generated, <<"r">>)
  \/ \E p \in Procs, indexed \in BOOLEAN : AnalyzeInsert(p, indexed)
  \/ \E p \in Procs : GetDocuments(p, SeedToken(1))
  \/ \E p \in Procs, did \in 1..MaxDocs : DeleteDocument(p, SeedToken(1), did)

SpecDocuments == Init /\ [][NextDocuments]_vars

\* ------------------------------------------------------- rate limits ----
\* the requests arrive in bursts: the burst to one route and address goes on
\* while no counter of another route has been used and the counter of the
\* route's other address is empty or full
Burst(route, addr) ==
  \A k \in DOMAIN hits :
    /\ (k[1] # route) => (hits[k] = 0)
    /\ (k[1] = route /\ k[2] # addr) => (hits[k] \in {0, Limit(route)})

\* bursts of requests to the limited routes from the followed addresses, by
\* both users, with and without valid input and credentials
NextLimit ==
  \/ \E p \in Procs, addr \in Addresses, fresh \in BOOLEAN :
       \/ Burst("health", addr) /\ HealthCheck(p, addr, fresh)
       \/ /\ Burst("signup", addr)
          /\ \E name \in Names \cup ShortNames, password \in Passwords :
               SignupCheck(p, addr, fresh, name, SeedUsers[1].email, password)
       \/ /\ Burst("login", addr)
          /\ \E email \in {SeedUsers[1].email, <<"a", "@", "x">>},
                password \in Passwords :
               Login(p, addr, fresh, email, password)
       \/ /\ Burst("session", addr)
          /\ \E email \in {SeedUsers[1].email, <<>>} :
               SessionCheck(p, addr, fresh, email, <<>>, "none", "google")
       \/ /\ Burst("send", addr)
          /\ addr = "10.0.0.1"
          /\ \E cred \in {SeedToken(1), NoCred}, cid \in 0..MaxChats,
                m \in {<<"a">>, <<>>} :
               SendResolve(p, addr, fresh, cred, cid, m, "detailed")
       \/ /\ Burst("analyze", addr)
          /\ \E cred \in {SeedToken(1), NoCred}, in \in {u \in Uploads : ~u.file.allowed} :
               AnalyzeDocument(p, addr, fresh, cred, in.file, in.extracted,
                               in.text, in.generated, <<"r">>)
       \/ /\ Burst("rag_query", addr)
          /\ \E cred \in SeedTokens \cup {NoCred}, q \in {<<"q">>, <<>>} :
               RagQuery(p, addr, fresh, cred, q, TopKMin, TRUE,
                        Engine("returns", <<>>))
  \/ \E p \in Procs, reply \in Replies : SendGenerate(p, FALSE, reply)

SpecLimit == Init /\ [][NextLimit]_vars

\* ------------------------------------------------- external sign-in ----
\* the provider tags and the optional name and avatar of auth/session
Providers == {"google", "email"}
SessionNames == {<<>>, <<"B", "o", "b">>}
SessionEmails == {<<"a", "@", "x", ".", "i", "o">>} \cup BadEmails

\* signups and auth/session calls for the same emails, starting with an
\* empty user store
NextSession ==
  \/ \E p \in Procs, name \in Names, email \in Emails, password \in Passwords :
       SignupCheck(p, Quiet, TRUE, name, email, password)
  \/ \E p \in Procs : SignupInsert(p)
  \/ \E p \in Procs, email \in SessionEmails, name \in SessionNames,
        provider \in Providers :
       SessionCheck(p, Quiet, TRUE, email, name, "pic", provider)
  \/ \E p \in Procs : SessionInsert(p)

SpecSession == InitAuth /\ [][NextSession]_vars

\* ---------------------------------------------------------- retrieval ----
\* ranked results and statistics the retrieval engine can return
Rankings == {<<>>, <<"d1", "d2">>}
EngineStats == {[total_documents |-> 1, total_chunks |-> 3]}

\* the engine's behaviour on a query and on get_stats
QueryEngines ==
  {Engine("unavailable", <<>>), Engine("raises", <<>>)} \cup
  {Engine("returns", x) : x \in Rankings}
StatsEngines ==
  {Engine("unavailable", <<>>), Engine("raises", <<>>)} \cup
  {Engine("returns", x) : x \in EngineStats}

\* queries with and without text once sanitized
RagQueries == Queries \cup BadMessages \cup {<<" ", "q", "<", " ">>}

\* rag/query and rag/stats, with and without a valid token, for every
\* behaviour of the engine
NextRag ==
  \/ \E p \in Procs, cred \in {SeedToken(1), NoCred}, q \in RagQueries,
        k \in TopKs, use_rerank \in BOOLEAN, engine \in QueryEngines :
       RagQuery(p, Quiet, TRUE, cred, q, k, use_rerank, engine)
  \/ \E p \in Procs, cred \in {SeedToken(1), NoCred}, engine \in StatsEngines :
       RagStats(p, cred, engine)

SpecRag == Init /\ [][NextRag]_vars

\* -------------------------------------------------------------- logout ----
\* the token of the first user, and a token issued to that user a week later
LogoutTokens == {SeedToken(1), [SeedToken(1) EXCEPT !.exp = 2 * JWT_EXPIRATION]}

\* logout among the authenticated routes, while the clock passes the expiry
\* of the tokens
NextLogout ==
  \/ \E p \in Procs, cred \in LogoutTokens :
       \/ Logout(p, cred)
       \/ GetMe(p, cred)
       \/ GetChatHistory(p, cred)
       \/ GetDocuments(p, cred)
       \/ \E cid \in 1..MaxChats : GetChat(p, cred, cid)
       \/ \E cid \in 1..MaxChats : ExportChat(p, cred, cid, "txt", TRUE)
       \/ \E did \in 1..MaxDocs : ExportDocument(p, cred, did, "txt", TRUE)
       \/ \E cid \in 1..MaxChats : DeleteChat(p, cred, cid)
       \/ \E did \in 1..MaxDocs : DeleteDocument(p, cred, did)
       \/ RagStats(p, cred, Engine("returns", ZeroStats))
       \/ RagQuery(p, Quiet, TRUE, cred, <<"q">>, TopKMin, TRUE,
                   Engine("returns", <<>>))
       \/ SendResolve(p, Quiet, TRUE, cred, NoId, <<"a">>, "detailed")
       \/ AnalyzeDocument(p, Quiet, TRUE, cred, CHOOSE f \in Files : f.allowed /\ ~f.too_large,
                          TRUE, LongText, TRUE, <<"r">>)
  \/ \E p \in Procs, reply \in Replies : SendGenerate(p, TRUE, reply)
  \/ \E p \in Procs : SendUpdate(p)
  \/ \E p \in Procs : AnalyzeInsert(p, TRUE)
  \/ Advance(JWT_EXPIRATION, 2 * JWT_EXPIRATION)

SpecLogout == Init /\ [][NextLogout]_vars

\* --------------------------------------------------- longer histories ----
\* the chats and the document that earlier requests have left in the
\* stores: a chat of the first user with k messages, a second chat of that
\* user, a chat of the second user, and a document of the first user, all
\* written before the clock of the model starts
SeedContents ==
  <<<<"m", "1">>, <<"m", "2">>, <<"m", "3">>, <<"m", "4">>, <<"m", "5">>,
    <<"m", "6">>>>
SeedLengths == {0, 4, 6}

SeedMessages(k) ==
  [i \in 1..k |-> [sender |-> IF i % 2 = 1 THEN "user" ELSE "ai",
                   content |-> SeedContents[i], timestamp |-> -1]]

SeedChats(k) ==
  <<[user_id |-> 1, title |-> <<"m", "1">>, messages |-> SeedMessages(k),
     created_at |-> -1, updated_at |-> -1],
    [user_id |-> 1, title |-> <<"o", "1">>,
     messages |-> <<[sender |-> "user", content |-> <<"o", "1">>,
                     timestamp |-> -1],
                    [sender |-> "ai", content |-> <<"o", "2">>,
                     timestamp |-> -1]>>,
     created_at |-> -1, updated_at |-> -1],
    [user_id |-> 2, title |-> <<"x", "1">>,
     messages |-> <<[sender |-> "user", content |-> <<"x", "1">>,
                     timestamp |-> -1],
                    [sender |-> "ai", content |-> <<"x", "2">>,
                     timestamp |-> -1]>>,
     created_at |-> -1, updated_at |-> -1]>>

SeedDocuments ==
  <<[user_id |-> 1, filename |-> "f.pdf", document_type |-> "legal_document",
     extracted_text |-> LongText, analysis |-> <<"r">>, created_at |-> -1]>>

InitThreads ==
  /\ now = 0
  /\ users = SeedUsers
  /\ chats \in {SeedChats(k) : k \in SeedLengths}
  /\ documents = SeedDocuments
  /\ rag = {}
  /\ nextChat = Len(SeedChats(0)) + 1
  /\ nextDoc = Len(SeedDocuments) + 1
  /\ hits = NoHits
  /\ rq = [p \in Procs |-> IdleReq]
  /\ resp = NoResponse

\* sends of the first user to that user's chats and the history listings of
\* both users, while the clock moves
NextThreads ==
  \/ \E p \in Procs, cid \in {c \in DOMAIN chats : chats[c].user_id = 1} :
       SendResolve(p, Quiet, TRUE, SeedToken(1), cid, <<"a">>, "detailed")
  \/ \E p \in Procs, generated \in BOOLEAN, reply \in Replies :
       SendGenerate(p, generated, reply)
  \/ \E p \in Procs : SendUpdate(p)
  \/ \E p \in Procs, cred \in SeedTokens : GetChatHistory(p, cred)
  \/ Advance(1, MaxClock)

SpecThreads == InitThreads /\ [][NextThreads]_vars

\* ================================================================ claims ====
Responded == resp'.seq # resp.seq

ChatRoutes == {"send", "get_chat", "delete_chat", "export_chat"}
DocumentRoutes == {"delete_document", "export_document"}

\* the response answers a well-formed request of an authenticated user for
\* the id of a chat that is stored for another user
ForeignChatRequest ==
  /\ Responded
  /\ resp'.op \in ChatRoutes
  /\ resp'.caller # NoId
  /\ resp'.target \in DOMAIN chats
  /\ chats[resp'.target].user_id # resp'.caller
  /\ (resp'.op = "export_chat" => ValidFormat(resp'.fmt))

ForeignDocumentRequest ==
  /\ Responded
  /\ resp'.op \in DocumentRoutes
  /\ resp'.caller # NoId
  /\ resp'.target \in DOMAIN documents
  /\ documents[resp'.target].user_id # resp'.caller
  /\ (resp'.op = "export_document" => ValidFormat(resp'.fmt))

\* a stored record changes or disappears only in a step that answers a
\* request of its owner
OnlyOwnerWrites ==
  /\ \A c \in DOMAIN chats :
       (c \notin DOMAIN chats' \/ chats'[c] # chats[c]) =>
         (Responded /\ resp'.caller = chats[c].user_id)
  /\ \A d \in DOMAIN documents :
       (d \notin DOMAIN documents' \/ documents'[d] # documents[d]) =>
         (Responded /\ resp'.caller = documents[d].user_id)

\* the listings hold records of the caller only
OwnListing ==
  /\ (resp'.body.kind = "chats") =>
       (\A i \in DOMAIN resp'.body.chats :
          resp'.body.chats[i].chat.user_id = resp'.caller)
  /\ (resp'.body.kind = "documents") =>
       (\A i \in DOMAIN resp'.body.documents :
          resp'.body.documents[i].doc.user_id = resp'.caller)

\* what C1 asks of every step
OwnershipStep ==
  /\ ForeignChatRequest =>
       (/\ resp'.status = 404
        /\ resp'.body = Detail("Chat not found")
        /\ chats' = chats)
  /\ ForeignDocumentRequest =>
       (/\ resp'.status = 404
        /\ resp'.body = Detail("Document not found")
        /\ documents' = documents)
  /\ OnlyOwnerWrites
  /\ OwnListing

\* C1: ownership isolation.  A request of user B that reaches the store with
\* the id of a chat or document of another user A (chat fetch, delete, send,
\* export, document delete, export) is answered 404 with the bare detail and
\* none of A's data, A's record is left as it was, no step changes a record
\* other than on behalf of its owner, and the listings returned to B hold
\* only records whose user_id is B.
C1_OwnershipIsolation == [][OwnershipStep]_vars

\* user B has been answered 404 for the stored chat of user A
C1_Witness ==
  /\ resp.status = 404
  /\ resp.op \in ChatRoutes
  /\ resp.caller # NoId
  /\ resp.target \in DOMAIN chats
  /\ chats[resp.target].user_id # resp.caller
  /\ chats[resp.target].messages # <<>>

\* --------------------------------------------------------- chat/send ----
\* C2: chat messages are append-only under any interleaving: while a chat
\* exists, every write leaves the messages persisted before it in place as a
\* prefix of the new sequence, so no persisted message is dropped or
\* overwritten when chat/send requests to the chat overlap.
C2_AppendOnly ==
  [][\A c \in DOMAIN chats \cap DOMAIN chats' :
       IsPrefix(chats[c].messages, chats'[c].messages)]_vars

\* task p takes its update_one step
Updates(p) == rq[p].pc = "send_update" /\ rq'[p].pc = "idle"

\* the sequence task p read when it resolved its chat
ReadBy(p) == SubSeq(rq[p].chat.messages, 1, Len(rq[p].chat.messages) - 2)

\* what C3 asks of the update step of task p
AppendsTwo(p) ==
  LET c == rq[p].target
      S == chats[c].messages
      T == chats'[c].messages
  IN /\ Len(rq[p].chat.messages) = Len(ReadBy(p)) + 2
     /\ Len(T) = Len(S) + 2
     /\ SubSeq(T, 1, Len(S)) = S
     /\ T[Len(S) + 1].sender = "user"
     /\ T[Len(S) + 1].content = rq[p].message
     /\ T[Len(S) + 2].sender = "ai"
     /\ T[Len(S) + 2] = resp'.body.message
     /\ resp'.status = 200
     /\ resp'.body.chat_id = c

\* C3: a successful chat/send to a chat whose persisted sequence S no other
\* request has written since this request read it leaves S as an unchanged,
\* unreordered prefix and appends exactly two messages at the end, first the
\* caller's message with sender "user", then the generated one with sender
\* "ai".
C3_SendAppends ==
  [][\A p \in Procs :
       (/\ Updates(p)
        /\ rq[p].target \in DOMAIN chats
        /\ chats[rq[p].target].messages = ReadBy(p)) => AppendsTwo(p)]_vars

\* a second send has been appended to the two messages of a first one
C3_Witness ==
  /\ resp.op = "send"
  /\ resp.status = 200
  /\ ~resp.created
  /\ resp.target \in DOMAIN chats
  /\ Len(chats[resp.target].messages) = 4
  /\ chats[resp.target].messages[3].content = resp.message
  /\ chats[resp.target].messages[4] = resp.body.message

\* C4: the persisted updated_at of a chat never decreases: every write
\* stores a value >= the one persisted before it and >= created_at, for any
\* interleaving of chat/send requests under a non-decreasing clock.
C4_UpdatedAtMonotone ==
  [][\A c \in DOMAIN chats \cap DOMAIN chats' :
       /\ chats'[c].updated_at >= chats[c].updated_at
       /\ chats'[c].updated_at >= chats'[c].created_at]_vars

\* the response is the 500 of a chat/send whose generation failed
FailedSend(r) == r.op = "send" /\ r.status = 500

BeforeUpdate(p) ==
  /\ rq'[p] # rq[p]
  /\ \/ rq'[p].pc = "send_generate"
     \/ rq[p].pc = "send_generate" /\ rq'[p].pc = "idle"

C10_NoRecordLeftBehind ==
  [][/\ (Responded /\ FailedSend(resp') /\ resp'.created) =>
          (resp'.target \notin DOMAIN chats')
     /\ (Responded /\ resp'.op = "analyze" /\ resp'.status = 500) =>
          (documents' = documents)]_vars

\* -------------------------------------------------------------- auth ----
\* the bearer token verifies, has not expired, and names a stored user
ValidBearer(cred) ==
  /\ cred # NoCred
  /\ cred.sig = "ok"
  /\ cred.exp > now
  /\ cred.user_id \in 1..Len(users)

StoresUnchanged == UNCHANGED <<users, chats, documents, rag, nextChat, nextDoc>>

\* what C5 asks of the response of an authenticated route
AuthenticatedStep ==
  (Responded /\ resp'.op \in {"me", "logout"}) =>
    IF ValidBearer(resp'.cred)
    THEN /\ resp'.caller = resp'.cred.user_id
         /\ resp'.status = 200
         /\ (resp'.op = "me") =>
              (resp'.body.user = Profile(resp'.caller, users[resp'.caller]))
    ELSE /\ resp'.caller = NoId
         /\ resp'.status = 401
         /\ resp'.body.kind = "detail"
         /\ StoresUnchanged

C6_LoginOutcomes ==
  (resp.op = "login") =>
    \/ /\ resp.status = 200
       /\ \E i \in 1..Len(users) :
            /\ users[i].email = resp.form.email
            /\ users[i].password_hash = HashPw(resp.form.password)
    \/ /\ resp.status = 401
       /\ resp.body = Detail("Invalid email or password")

\* C7: no two stored users have the same email, for any interleaving of
\* signup and auth/session requests.
C7_EmailUnique ==
  \A i, j \in 1..Len(users) : i # j => users[i].email # users[j].email

Registered(email) == \E i \in 1..Len(users) : users[i].email = email

\* the token of the last signup response, while it has not expired, is
\* accepted by get_current_user as a stored user with the signup email
SignupTokenResolves ==
  (resp.op = "signup" /\ resp.status = 200 /\ resp.body.token.exp > now) =>
    LET uid == CurrentUser(resp.body.token) IN
    /\ uid # NoId
    /\ users[uid].email = resp.form.email
    /\ resp.body.user.email = resp.form.email
    /\ resp.body.user.id = uid

\* what C8 asks of every step
SignupStep ==
  /\ (Responded /\ resp'.op = "signup" /\ resp'.status # 200) =>
       (/\ resp'.status = 400
        /\ resp'.body = Detail("Email already registered")
        /\ Registered(resp'.form.email)
        /\ users' = users)
  /\ \A p \in Procs :
       (rq[p].pc = "idle" /\ rq'[p].pc = "signup_insert") =>
         ~Registered(rq'[p].form.email)
  /\ (Responded /\ resp'.op = "signup" /\ rq' = rq) => (resp'.status = 400)

Refused(r) ==
  \/ r.status = 422
  \/ r.status = 401
  \/ /\ r.status = 400
     /\ r.body \in {Detail("Invalid email"), Detail("Invalid format"),
                    Detail("Unsupported file type")}

\* C11: a request that fails validation (422 for an empty message or query,
\* a top_k out of range, a short name or password, a malformed email; 400
\* for an invalid session email, a bad export format, a disallowed file
\* type) or authentication (401) is answered in its first step and leaves
\* the user, chat and document stores as they were before the request.
C11_RefusedLeavesStores ==
  [][(Responded /\ Refused(resp')) => (StoresUnchanged /\ rq' = rq)]_vars

\* an empty message has been refused while a user, a chat and a document
\* are stored
C11_Witness ==
  /\ resp.op = "send"
  /\ resp.status = 422
  /\ resp.caller # NoId
  /\ users # <<>>
  /\ DOMAIN chats # {}
  /\ DOMAIN documents # {}

\* --------------------------------------------------- document analysis ----
\* the response answers an upload of an allowed file within the size limit
\* from which the extraction returned too little text
InsufficientUpload(r) ==
  /\ r.op = "analyze"
  /\ r.caller # NoId
  /\ r.status # 429
  /\ r.form.file.allowed
  /\ ~r.form.file.too_large
  /\ r.form.extracted
  /\ InsufficientText(r.form.text)

\* C12: documents/analyze on an allowed file whose extracted text is empty
\* or shorter than 10 characters after trimming is answered 400 "Could not
\* extract sufficient text", not the generic 500, and stores no document.
C12_InsufficientTextIs400 ==
  [][(Responded /\ InsufficientUpload(resp')) =>
       (/\ resp'.status = 400
        /\ resp'.body = Detail("Could not extract sufficient text")
        /\ documents' = documents)]_vars

\* C13: indexing is best-effort.  Once documents/analyze has its text and
\* its analysis, the request inserts the document and is answered 200 with
\* the document id and the analysis, whether add_documents (or obtaining the
\* engine) succeeds or fails, and the inserted record is in the store.
C13_IndexingBestEffort ==
  [][\A p \in Procs :
       (rq[p].pc = "analyze_insert" /\ rq'[p] # rq[p]) =>
         (/\ resp'.op = "analyze"
          /\ resp'.status = 200
          /\ resp'.body.document_id = rq[p].target
          /\ resp'.body.analysis = rq[p].doc.analysis
          /\ rq[p].target \in DOMAIN documents'
          /\ documents'[rq[p].target] = rq[p].doc)]_vars

\* an analysis has been answered 200 and its document is stored, while the
\* retrieval engine holds nothing for it
C13_Witness ==
  /\ resp.op = "analyze"
  /\ resp.status = 200
  /\ resp.target \in DOMAIN documents
  /\ documents[resp.target].analysis = resp.body.analysis
  /\ resp.target \notin rag

\* ------------------------------------------------------- rate limits ----
\* r records a request to a limited route from a followed address
Limited(r) == r.op \in LimitedRoutes /\ r.addr \in Addresses

\* the counter of the request's route and address has counted it in this step
Counted(r) ==
  hits'[<<r.op, r.addr>>] = IF r.fresh THEN 1 ELSE hits[<<r.op, r.addr>>] + 1

\* the window of the request's route and address was full when it arrived
Full(r) == ~r.fresh /\ hits[<<r.op, r.addr>>] >= Limit(r.op)

\* a request is answered in the step in which it arrives
AnsweredAtOnce == Responded /\ rq' = rq

\* the request of task p arrives and is suspended in its handler
Arrives(p) == rq[p].pc = "idle" /\ rq'[p].pc # "idle"

\* C14: of any L+1 requests to a route with limit L from one address inside
\* one window, at least one is answered 429 and at most L are served: no
\* counter passes its limit, and every request that arrives takes one of the
\* L places of its window or is answered 429.
C14_LimitPlusOne ==
  [][/\ \A k \in DOMAIN hits : hits'[k] <= Limit(k[1])
     /\ (AnsweredAtOnce /\ Limited(resp')) =>
          (resp'.status = 429 \/ Counted(resp'))
     /\ \A p \in Procs :
          (Arrives(p) /\ Limited(rq'[p])) => Counted(rq'[p])]_vars

\* C15: a request answered 429 has no application side effect: the user,
\* chat and document stores and the retrieval index are unchanged, the
\* request is answered in the step in which it arrives (no handler step, no
\* generation, extraction or retrieval call, never queued), with the
\* rate-limit error, and only when its window was full.
C15_RateLimitedNoEffect ==
  [][(Responded /\ resp'.status = 429) =>
       (/\ StoresUnchanged
        /\ rq' = rq
        /\ hits' = hits
        /\ resp'.body = [kind |-> "error", error |-> "Rate limit exceeded"]
        /\ Full(resp'))]_vars

\* a chat/send that would have created a chat has been answered 429, and
\* no chat has been created
C15_Witness ==
  /\ resp.op = "send"
  /\ resp.status = 429
  /\ resp.caller # NoId
  /\ resp.target = NoId
  /\ nextChat = 1
  /\ DOMAIN chats = {}

\* C16: the stages run in the order rate-limit, authenticate, validate,
\* handle: a request that arrives when its window is full is answered 429
\* whatever its token and body, and a request answered 401 or 422 on a
\* limited route has been counted against the limit.
C16_RateLimitFirst ==
  [][(AnsweredAtOnce /\ Limited(resp')) =>
       (/\ Full(resp') => (resp'.status = 429)
        /\ (resp'.status \in {401, 422}) => Counted(resp'))]_vars

\* the routes that are limited and authenticated
AuthenticatedLimitedRoutes == {"send", "analyze", "rag_query"}

\* the limiter would refuse a request of user u to the route from addr
Refuses(route, addr, u) ==
  OverLimit([IdleReq EXCEPT !.op = route, !.addr = addr, !.caller = u])

\* what C17 asks of the step in which a request is counted
BudgetStep ==
  /\ \A route \in AuthenticatedLimitedRoutes, a \in Addresses,
        u \in 1..Len(users) :
       (/\ Responded
        /\ resp'.op = route
        /\ Limited(resp')
        /\ Counted(resp')
        /\ resp'.caller # u) =>
         (Refuses(route, a, u)' = Refuses(route, a, u))
  /\ \A route \in LimitedRoutes \ AuthenticatedLimitedRoutes,
        a \in Addresses :
       (/\ Responded
        /\ resp'.op = route
        /\ Limited(resp')
        /\ resp'.addr # a) =>
         (hits'[<<route, a>>] = hits[<<route, a>>])

\* C17: on chat-send, document-analyze and rag-query the budget belongs to
\* the authenticated user: a counted request of one user never changes
\* whether a request of another user is refused, from whatever address, and
\* a user is refused from one address exactly when he is refused from every
\* other; on the unauthenticated routes a request leaves the counters of
\* the other addresses alone.
C17_KeyedByIdentity ==
  /\ [](\A route \in AuthenticatedLimitedRoutes, a1 \in Addresses,
          a2 \in Addresses, u \in 1..Len(users) :
          Refuses(route, a1, u) = Refuses(route, a2, u))
  /\ [][BudgetStep]_vars

\* ------------------------------------------------- external sign-in ----
\* C18: a stored user has a password hash exactly when its provider tag is
\* "email", after any signups and auth/session calls, whatever provider an
\* auth/session call names.
C18_HashIffEmailProvider ==
  \A i \in 1..Len(users) :
    (users[i].password_hash # NoHash) <=> (users[i].auth_provider = "email")

\* the stored users with the email
Holders(email) == {i \in 1..Len(users) : users[i].email = email}

\* what C19 asks of an auth/session call answered at its find_one
SessionAnswer ==
  LET email == resp'.form.email
      id == resp'.body.user.id
  IN IF email = <<>> \/ ~ValidateEmail(email)
     THEN /\ resp'.status = 400
          /\ resp'.body = Detail("Invalid email")
          /\ users' = users
     ELSE /\ resp'.status = 200
          /\ users' = users
          /\ id \in Holders(email)
          /\ resp'.body.user = Profile(id, users[id])
          /\ resp'.body.token.user_id = id
          /\ (/\ Cardinality(Holders(email)) = 1
              /\ resp.op = "session"
              /\ resp.status = 200
              /\ resp.form.email = email) => (id = resp.body.user.id)

\* what C19 asks of the insert_one step of the auth/session call of task p
SessionCreates(p) ==
  LET id == Len(users) + 1 IN
  /\ Len(users') = id
  /\ SubSeq(users', 1, Len(users)) = users
  /\ users'[id].email = rq[p].form.email
  /\ users'[id].password_hash = NoHash
  /\ resp'.status = 200
  /\ resp'.body.user = Profile(id, users'[id])
  /\ resp'.body.token.user_id = id

\* what C19 asks of every step
SessionStep ==
  /\ (AnsweredAtOnce /\ resp'.op = "session") => SessionAnswer
  /\ \A p \in Procs :
       /\ (Arrives(p) /\ rq'[p].op = "session") =>
            (/\ ValidateEmail(rq'[p].form.email)
             /\ Holders(rq'[p].form.email) = {}
             /\ users' = users)
       /\ (rq[p].pc = "session_insert" /\ rq'[p] # rq[p]) => SessionCreates(p)

ExportRoutes == {"export_chat", "export_document"}

\* the response answers an authenticated export request whose format tag
\* is none of pdf, docx, txt
BadFormatExport(r) ==
  /\ r.op \in ExportRoutes
  /\ r.caller # NoId
  /\ r.fmt \notin {"pdf", "docx", "txt"}

\* C20: an authenticated chat or document export whose format tag is not
\* one of pdf, docx, txt is answered 400 with the bad-format error whatever
\* the id, also when the id is of no stored item or of an item of another
\* user, never 404; it is answered in its first step and changes no store.
C20_BadFormatBeforeLookup ==
  [][(Responded /\ BadFormatExport(resp')) =>
       (/\ resp'.status = 400
        /\ resp'.body = Detail("Invalid format")
        /\ rq' = rq
        /\ UNCHANGED <<users, chats, documents, rag>>)]_vars

\* a chat export with a bad format for the id of a chat that is stored for
\* another user has been answered with the format error
C20_Witness ==
  /\ BadFormatExport(resp)
  /\ resp.op = "export_chat"
  /\ resp.status = 400
  /\ resp.target \in DOMAIN chats
  /\ chats[resp.target].user_id # resp.caller

\* --------------------------------------------------------- retrieval ----
\* the rag/query request has a top_k below 1 or above 20, or a query that
\* is empty once sanitized
BadRagQuery(r) ==
  \/ r.form.top_k < 1
  \/ r.form.top_k > 20
  \/ Sanitize(r.form.query, QueryMax) = <<>>

\* what C21 asks of the answer r to a rag/query request
RagQueryAnswer(r) ==
  LET call == QueryCall(Sanitize(r.form.query, QueryMax), r.form.top_k,
                        r.form.use_rerank)
  IN IF BadRagQuery(r)
     THEN /\ r.calls = <<>>
          /\ r.status = IF r.caller = NoId THEN 401 ELSE 422
     ELSE /\ r.calls \in {<<>>, <<call>>}
          /\ (r.status = 200) <=>
               (r.caller # NoId /\ r.form.engine.outcome = "returns")
          /\ (r.status = 200) =>
               (/\ r.calls = <<call>>
                /\ r.body.results = r.form.engine.returned
                /\ r.body.query = call.query)

RagStatsAnswer(r) ==
  /\ r.status = 200
  /\ r.body = IF r.form.engine.outcome = "returns"
              THEN r.form.engine.returned
              ELSE [total_documents |-> 0, total_chunks |-> 0]

\* C25: rag/stats answers an authenticated caller 200 whatever the engine
\* does: with the stats get_stats returned, and with total_documents 0 and
\* total_chunks 0 when the engine cannot be obtained or get_stats raises.
C25_RagStatsDegrades ==
  [][(Responded /\ resp'.op = "rag_stats" /\ resp'.caller # NoId) =>
       RagStatsAnswer(resp')]_vars

\* rag/stats has answered with the zeroed defaults after get_stats raised
C25_Witness ==
  /\ resp.op = "rag_stats"
  /\ resp.caller # NoId
  /\ resp.form.engine.outcome = "raises"
  /\ resp.calls = <<StatsCall>>
  /\ resp.status = 200
  /\ resp.body = ZeroStats

\* -------------------------------------------------- chat/send answers ----
\* the response r is the 200 of a chat/send
SendSucceeded(r) == r.op = "send" /\ r.status = 200

\* the title the claim gives a chat created for message m: m when it has at
\* most 50 characters, else its first 50 characters and "..."
TitleOf(m) ==
  IF Len(m) <= 50 THEN m
  ELSE [i \in 1..53 |-> IF i <= 50 THEN m[i] ELSE "."]

\* sender and content of the messages ms
Said(ms) ==
  [i \in 1..Len(ms) |-> [sender |-> ms[i].sender, content |-> ms[i].content]]

\* the chat that the answered chat/send created is stored for the caller
\* with the title of the message and the two messages of the exchange
NewChatPersisted(r) ==
  /\ r.target \in DOMAIN chats'
  /\ chats'[r.target].user_id = r.caller
  /\ chats'[r.target].title = TitleOf(r.message)
  /\ Len(chats'[r.target].messages) = 2
  /\ Said(chats'[r.target].messages) =
       <<[sender |-> "user", content |-> r.message],
         [sender |-> "ai", content |-> r.body.message.content]>>

\* C22: a valid chat/send without chat_id of an authenticated user creates
\* exactly one chat, owned by the caller; when the generation succeeds the
\* answer is 200 with the id of that chat and a message of sender "ai", and
\* the chat is then stored with exactly the two messages [user message, ai
\* message] and with the message, cut to 50 characters and "..." when it is
\* longer, as its title.
C22_NewChatSend ==
  [][/\ \A p \in Procs :
          (Arrives(p) /\ rq'[p].op = "send" /\ rq'[p].created) =>
            (/\ rq'[p].target \notin DOMAIN chats
             /\ DOMAIN chats' = DOMAIN chats \cup {rq'[p].target}
             /\ \A c \in DOMAIN chats : chats'[c] = chats[c]
             /\ chats'[rq'[p].target].user_id = rq'[p].caller)
     /\ (Responded /\ SendSucceeded(resp') /\ resp'.created) =>
            (/\ resp'.body.chat_id = resp'.target
             /\ resp'.body.message.sender = "ai"
             /\ NewChatPersisted(resp'))]_vars

\* C27: whenever chat/send answers 200 with a chat_id and an ai message, a
\* chat with that id is stored for the caller and its stored messages end
\* with the user message of the request followed by that ai message, also
\* when a delete of the chat by its owner overlaps the send.
C27_SuccessImpliesPersisted ==
  [][(Responded /\ SendSucceeded(resp')) =>
       (/\ resp'.body.chat_id \in DOMAIN chats'
        /\ chats'[resp'.body.chat_id].user_id = resp'.caller
        /\ Len(chats'[resp'.body.chat_id].messages) >= 2
        /\ Said(LastN(chats'[resp'.body.chat_id].messages, 2)) =
             <<[sender |-> "user", content |-> resp'.message],
               [sender |-> "ai", content |-> resp'.body.message.content]>>)]_vars

\* ------------------------------------------------------- file types ----
\* C23: documents/analyze of an authenticated caller with a file whose type
\* is not on the allow-list is answered 400 "Unsupported file type" without
\* a call to the text extraction or to the generation service, and stores
\* and indexes no document.
C23_UnsupportedTypeFirst ==
  [][(/\ Responded
      /\ resp'.op = "analyze"
      /\ resp'.caller # NoId
      /\ ~resp'.form.file.allowed) =>
       (/\ resp'.status = 400
        /\ resp'.body = Detail("Unsupported file type")
        /\ resp'.calls = <<>>
        /\ rq' = rq
        /\ UNCHANGED <<documents, rag, nextDoc>>)]_vars

\* the upload of f.exe, which the extraction and the generation would have
\* accepted, has been answered 400 with no call made
C23_Witness ==
  /\ resp.op = "analyze"
  /\ resp.status = 400
  /\ ~resp.form.file.allowed
  /\ resp.form.extracted
  /\ resp.form.generated
  /\ ~InsufficientText(resp.form.text)
  /\ resp.calls = <<>>

\* -------------------------------------------------------------- logout ----
\* the routes behind get_current_user
AuthenticatedRoutes ==
  {"logout", "me", "send", "history", "get_chat", "delete_chat", "export_chat",
   "analyze", "documents", "delete_document", "export_document", "rag_query",
   "rag_stats"}

\* the token names a stored user and its expiry has not passed
StillGood(cred) ==
  /\ cred # NoCred
  /\ cred.sig = "ok"
  /\ cred.user_id \in 1..Len(users)
  /\ cred.exp > now

\* C24: logout changes no server state, and a request to an authenticated
\* route that comes right after an accepted logout with the same token is
\* accepted as the same user as long as the token has not expired and its
\* user is stored.
C24_LogoutChangesNothing ==
  [][/\ (Responded /\ resp'.op = "logout") =>
          UNCHANGED <<now, users, chats, documents, rag, nextChat, nextDoc, hits>>
     /\ (/\ Responded
         /\ resp.op = "logout"
         /\ resp.status = 200
         /\ resp'.op \in AuthenticatedRoutes
         /\ resp'.cred = resp.cred
         /\ rq' = rq) =>
          IF StillGood(resp.cred)
          THEN resp'.status # 401 /\ resp'.caller = resp.cred.user_id
          ELSE resp'.status = 401
     /\ \A p \in Procs :
          (/\ Arrives(p)
           /\ resp.op = "logout"
           /\ resp.status = 200
           /\ rq'[p].cred = resp.cred) =>
            (StillGood(resp.cred) /\ rq'[p].caller = resp.cred.user_id)]_vars

\* a logout has been accepted while the user has a chat and a document
\* stored and time has passed since the token was issued
C24_Witness ==
  /\ resp.op = "logout"
  /\ resp.status = 200
  /\ now > 0
  /\ \E c \in DOMAIN chats : chats[c].user_id = resp.caller
  /\ \E d \in DOMAIN documents : documents[d].user_id = resp.caller

\* ------------------------------------------------------- chat/history ----
\* the place of chat c in the listing l
Place(l, c) == CHOOSE i \in DOMAIN l : l[i].id = c

\* what C26 asks of the listing l that answers caller u
HistoryListing(l, u) ==
  LET own == {c \in DOMAIN chats : chats[c].user_id = u} IN
  /\ Len(l) <= 100
  /\ \A i \in DOMAIN l : l[i].id \in own /\ l[i].chat = chats[l[i].id]
  /\ \A i, j \in DOMAIN l : i # j => l[i].id # l[j].id
  /\ (Cardinality(own) <= 100) => (\A c \in own : \E i \in DOMAIN l : l[i].id = c)
  /\ \A i, j \in DOMAIN l :
       i < j => l[i].chat.updated_at >= l[j].chat.updated_at

LastOfThread(ms, m) ==
  LET all == Said(ms) \o <<[sender |-> "user", content |-> m]>>
      n == Len(all)
      k == IF n < 5 THEN n ELSE 5
  IN [i \in 1..k |-> all[n - k + i]]

\* the calls the request of task p has made after the step
CallsAfter(p) == IF rq'[p].pc = "idle" THEN resp'.calls ELSE rq'[p].calls

\* C28: the transcript chat/send hands to the generation service is the
\* last min(5, n) messages, in insertion order, of the sequence the request
\* read from the addressed chat (none for a chat it created) with the new
\* user message appended, n being its length: the new message is its last
\* entry and every other entry is a message of that chat.
C28_TranscriptWindow ==
  [][\A p \in Procs :
       /\ (Arrives(p) /\ rq'[p].op = "send") =>
            (rq'[p].chat.messages =
               IF rq'[p].created THEN <<>> ELSE chats[rq'[p].target].messages)
       /\ (rq[p].pc = "send_generate" /\ rq'[p] # rq[p]) =>
            (/\ Len(CallsAfter(p)) = 1
             /\ CallsAfter(p)[1].fn = "generate_content"
             /\ CallsAfter(p)[1].prompt.history =
                  LastOfThread(rq[p].chat.messages, rq[p].message))]_vars

\* a send to the chat with six messages has handed over a transcript of
\* five entries, from the third stored message to the new message
C28_Witness ==
  \E p \in Procs :
    /\ rq[p].pc = "send_update"
    /\ Len(rq[p].chat.messages) = 8
    /\ Len(rq[p].prompt.history) = 5
    /\ rq[p].prompt.history[1].content = <<"m", "3">>
    /\ rq[p].prompt.history[5].content = rq[p].message

\* ---------------------------------------------------------------- frame ----
\* C29: a chat/send to an existing chat changes nothing but the messages
\* and updated_at of that chat: no chat appears or disappears, the id,
\* user_id, created_at and title of every chat stay as they are, a chat
\* changes only in the step that answers a send of its owner to it, and no
\* document, user or index entry changes.
C29_SendFrame ==
  [][/\ UNCHANGED <<users, documents, rag, nextChat, nextDoc>>
     /\ DOMAIN chats' = DOMAIN chats
     /\ \A c \in DOMAIN chats :
          /\ chats'[c].user_id = chats[c].user_id
          /\ chats'[c].created_at = chats[c].created_at
          /\ chats'[c].title = chats[c].title
          /\ (chats'[c] # chats[c]) =>
               (/\ Responded
                /\ SendSucceeded(resp')
                /\ resp'.target = c
                /\ resp'.caller = chats[c].user_id)]_vars

\* two sends have been stored in a chat, at a later time than its creation,
\* and the chat has the title it was created with
C29_Witness ==
  \E c \in DOMAIN chats :
    /\ Len(Sent(chats[c].messages)) = 4
    /\ chats[c].updated_at > chats[c].created_at
    /\ chats[c].title = SeedChats(0)[c].title
    /\ chats[c].title # <<"a">>

====
